---- MODULE Spec2Model ----
(***************************************************************************)
(* Model of linux/hearing-aid-adjustments.py: the ATT session (ATTManager) *)
(* with its receive loop, request/response hand-off and reconnect, and the *)
(* hearing-aid settings codec (parse_hearing_aid_settings and              *)
(* send_hearing_aid_settings).                                             *)
(*                                                                         *)
(* Byte buffers are sequences of 0..255; Python offset o is index o+1.     *)
(***************************************************************************)
EXTENDS Integers, Sequences, FiniteSets, TLC

\* ------------------------------------------------------------------------
\* Program constants
\* ------------------------------------------------------------------------
OPCODE_READ_REQUEST == 10
OPCODE_WRITE_REQUEST == 18
OPCODE_HANDLE_VALUE_NTF == 27
HANDLE_TRANSPARENCY == 24
HANDLE_LOUD_SOUND_REDUCTION == 27
HANDLE_HEARING_AID == 42
MinSettingsLen == 104
MarkerByte == 100

\* ------------------------------------------------------------------------
\* Bounds of the model
\* ------------------------------------------------------------------------
\* number of bytes a settings buffer may carry beyond offset 104
MaxExtra == 2
\* number of sockets (connect() calls) in one run
MaxSocks == 2
\* number of unsolicited PDUs the accessory sends in one run
MaxNotify == 1
\* number of times the link is lost in one run
MaxLoss == 1
\* number of disconnect() calls in one run
MaxDisc == 2
\* listeners registered at any one time, over all handles
MaxReg == 3

VARIABLES
    \* ---- ATTManager ----
    sock,           \* self.sock: 0 for None, else the socket's number
    sockSt,         \* per socket: "none", "new", "open", "lost", "closed"
    running,        \* self.running
    nthread,        \* self.notification_thread: "none" or a thread's name
    responses,      \* self.responses, the queue's items in order
    listeners,      \* self.listeners: handle -> list of callbacks
    \* ---- threads of control ----
    pc,             \* position of the UI thread, the senders and the receive threads
    uimode,         \* what the UI thread's connect() is part of: "att" or "manual"
    tpdu,           \* per receive thread: the PDU being dispatched
    tidx,           \* per receive thread: position of the for loop over the listeners
    sdata,          \* per sender: the bytes its read() returned
    \* ---- accessory and link ----
    inbox,          \* per socket: PDUs sent by the accessory, not yet received
    devq,           \* per socket: requests the accessory has not answered yet
    nsock,          \* sockets created so far
    nthr,           \* receive threads created so far
    nreq,           \* requests sent so far
    nnotify,        \* unsolicited PDUs sent so far
    nloss,          \* link losses so far
    ndisc,          \* disconnect() calls so far
    \* ---- history (observation only) ----
    hist,           \* per caller: the outcome of its latest request
    creq,           \* per caller: the request it is waiting on, 0 if none
    calls,          \* listener invocations, in order
    emitted,        \* number of update_ui emissions
    tatt,           \* per receive thread: connect() attempts it made
    autoFailed,     \* a reconnect failed and the caller has not called connect() since
    discCalled,     \* disconnect() was called and the caller has not called connect() since
    uilog,          \* outcomes of the UI thread's connect()/disconnect() calls
    \* ---- codec ----
    quietsNaN,      \* build property: float<->double conversion quiets a signalling NaN
    data,           \* bytes handed to parse / read back as the prior buffer
    parsed,         \* result of parse_hearing_aid_settings(data)
    submitted,      \* the settings record handed to send_hearing_aid_settings
    out,            \* what send_hearing_aid_settings did with (data, submitted)
    cpc,            \* position of the codec driver
    \* ---- HearingAidApp.send_settings ----
    sliders,        \* positions of the amplification and balance sliders
    perEar          \* left_amp and right_amp computed from them, in 1/10000

codecVars == <<quietsNaN, data, parsed, submitted, out, cpc>>
attVars == <<sock, sockSt, running, nthread, responses, listeners>>
ctlVars == <<pc, uimode, tpdu, tidx, sdata>>
envVars == <<inbox, devq, nsock, nthr, nreq, nnotify, nloss, ndisc>>
obsVars == <<hist, creq, calls, emitted, tatt, autoFailed, discCalled, uilog>>
sessVars == <<attVars, ctlVars, envVars, obsVars>>
uiVars == <<sliders, perEar>>
vars == <<sessVars, codecVars, uiVars>>

\* ------------------------------------------------------------------------
\* struct '<f': IEEE-754 binary32, little endian.  A Python float that came
\* out of unpack is kept as its binary32 fields [s, e, m] (sign, biased
\* exponent, 23-bit mantissa), the double being exactly that value.  A double
\* too large for binary32 (from the UI) has e >= 256.
\* ------------------------------------------------------------------------
Pow2(n) == IF n = 0 THEN 1 ELSE IF n = 1 THEN 2 ELSE IF n = 2 THEN 4 ELSE IF n = 3 THEN 8
           ELSE IF n = 4 THEN 16 ELSE IF n = 5 THEN 32 ELSE IF n = 6 THEN 64 ELSE 128

QuietBit == 4194304

IsNaN(x) == x.e = 255 /\ x.m # 0
IsInf(x) == x.e = 255 /\ x.m = 0

\* struct.unpack('<f', buffer[off:off+4])
StructUnpackF(buffer, off) ==
    LET b0 == buffer[off + 1]
        b1 == buffer[off + 2]
        b2 == buffer[off + 3]
        b3 == buffer[off + 4]
        e  == (b3 % 128) * 2 + (b2 \div 128)
        m  == (b2 % 128) * 65536 + b1 * 256 + b0
    IN [s |-> b3 \div 128,
        e |-> e,
        m |-> IF e = 255 /\ m # 0 /\ m < QuietBit /\ quietsNaN THEN m + QuietBit ELSE m]

\* struct.pack('<f', x) raises OverflowError for a finite double out of range
PackRaises(x) == x.e >= 256

\* MUTANT of StructPackF: big-endian byte order
StructPackF_BE(x) ==
    << x.s * 128 + (x.e \div 2), (x.e % 2) * 128 + (x.m \div 65536),
       (x.m \div 256) % 256, x.m % 256 >>

\* the four bytes struct.pack('<f', x) produces
StructPackF(x) ==
    << x.m % 256, (x.m \div 256) % 256,
       (x.e % 2) * 128 + (x.m \div 65536), x.s * 128 + (x.e \div 2) >>

FloatOne  == [s |-> 0, e |-> 127, m |-> 0]
FloatZero == [s |-> 0, e |-> 0, m |-> 0]

\* x > 0.5 on Python floats (False for NaN)
GtHalf(x) ==
    /\ ~IsNaN(x)
    /\ x.s = 0
    /\ \/ x.e > 126
       \/ x.e = 126 /\ x.m > 0

\* ------------------------------------------------------------------------
\* Arithmetic on the amplification values.  A number is [k, v]: k = "fin"
\* with v the value in eighths, or "pinf", "ninf", "nan".  Exact for the
\* binary32 values that are multiples of 1/4 of magnitude below 16, which is
\* what the model feeds the amplification fields.
\* ------------------------------------------------------------------------
Fin(v) == [k |-> "fin", v |-> v]
NaNNum == [k |-> "nan", v |-> 0]
PInf   == [k |-> "pinf", v |-> 0]
NInf   == [k |-> "ninf", v |-> 0]

\* the binary32 value is a multiple of 1/4 with magnitude < 16 (or 0)
OnGrid(x) ==
    \/ x.e = 0 /\ x.m = 0
    \/ x.e \in 125..130 /\ x.m % (8388608 \div Pow2(x.e - 125)) = 0

ToNum(x) ==
    IF IsNaN(x) THEN NaNNum
    ELSE IF IsInf(x) THEN (IF x.s = 0 THEN PInf ELSE NInf)
    ELSE IF x.e = 0 THEN Fin(0)
    ELSE LET mag == ((8388608 + x.m) \div (8388608 \div Pow2(x.e - 125))) * 2
         IN Fin(IF x.s = 0 THEN mag ELSE 0 - mag)

\* a + b in doubles
NumAdd(a, b) ==
    IF a.k = "nan" \/ b.k = "nan" THEN NaNNum
    ELSE IF a.k = "fin" /\ b.k = "fin" THEN Fin(a.v + b.v)
    ELSE IF a.k = "fin" THEN b
    ELSE IF b.k = "fin" THEN a
    ELSE IF a.k = b.k THEN a ELSE NaNNum

NumNeg(a) ==
    IF a.k = "fin" THEN Fin(0 - a.v)
    ELSE IF a.k = "pinf" THEN NInf
    ELSE IF a.k = "ninf" THEN PInf ELSE a

\* a / 2 (the model's sums of grid values are even numbers of eighths)
NumHalf(a) == IF a.k = "fin" THEN Fin(a.v \div 2) ELSE a

\* a < b on Python numbers (False when either is NaN)
NumLt(a, b) ==
    /\ a.k # "nan" /\ b.k # "nan"
    /\ \/ a.k = "ninf" /\ b.k # "ninf"
       \/ b.k = "pinf" /\ a.k # "pinf"
       \/ a.k = "fin" /\ b.k = "fin" /\ a.v < b.v

\* Python min(a, b): the first argument unless the second is smaller
PyMin(a, b) == IF NumLt(b, a) THEN b ELSE a
\* Python max(a, b): the first argument unless the second is larger
PyMax(a, b) == IF NumLt(a, b) THEN b ELSE a

\* MUTANT of ClampUnit: the upper limit is not applied
ClampUnit_NoUpper(x) == PyMax(Fin(0 - 8), x)

\* max(-1, min(1, x))
ClampUnit(x) == PyMax(Fin(0 - 8), PyMin(Fin(8), x))

\* ------------------------------------------------------------------------
\* parse_hearing_aid_settings
\* ------------------------------------------------------------------------
NoSettings == [none |-> TRUE]

\* len(data) < 104
ParseGuardShort(d) == Len(d) < MinSettingsLen

\* the record built from a buffer of at least 104 bytes
ParseSettings(d) ==
    LET left_amp  == StructUnpackF(d, 36)
        right_amp == StructUnpackF(d, 84)
    IN [none |-> FALSE,
        left_eq  |-> [i \in 1..8 |-> StructUnpackF(d, 4 + (i - 1) * 4)],
        right_eq |-> [i \in 1..8 |-> StructUnpackF(d, 52 + (i - 1) * 4)],
        left_amplification  |-> left_amp,
        right_amplification |-> right_amp,
        left_tone  |-> StructUnpackF(d, 40),
        right_tone |-> StructUnpackF(d, 88),
        left_conversation_boost  |-> GtHalf(StructUnpackF(d, 44)),
        right_conversation_boost |-> GtHalf(StructUnpackF(d, 92)),
        left_ambient_noise_reduction  |-> StructUnpackF(d, 48),
        right_ambient_noise_reduction |-> StructUnpackF(d, 96),
        net_amplification |-> ClampUnit(NumHalf(NumAdd(ToNum(left_amp), ToNum(right_amp)))),
        balance |-> ClampUnit(NumAdd(ToNum(right_amp), NumNeg(ToNum(left_amp)))),
        own_voice_amplification |-> StructUnpackF(d, 100)]

parse_hearing_aid_settings(d) ==
    IF ParseGuardShort(d) THEN NoSettings ELSE ParseSettings(d)

\* ------------------------------------------------------------------------
\* send_hearing_aid_settings: the buffer it builds from the prior buffer
\* ------------------------------------------------------------------------
BoolFloat(b) == IF b THEN FloatOne ELSE FloatZero

\* struct.pack_into('<f', buffer, off, x)
PackInto(buffer, off, x) ==
    [i \in 1..Len(buffer) |->
        IF i \in (off + 1)..(off + 4) THEN StructPackF(x)[i - off] ELSE buffer[i]]

\* MUTANT of SettingsWrites: with a balance of zero the right ear is written
\* from the left ear's amplification
SettingsWrites_Balanced(st) ==
    [i \in 1..8 |-> <<4 + (i - 1) * 4, st.left_eq[i]>>]
    \o << <<36, st.left_amplification>>,
          <<40, st.left_tone>>,
          <<44, BoolFloat(st.left_conversation_boost)>>,
          <<48, st.left_ambient_noise_reduction>> >>
    \o [i \in 1..8 |-> <<52 + (i - 1) * 4, st.right_eq[i]>>]
    \o << <<84, IF st.balance = Fin(0) THEN st.left_amplification
                ELSE st.right_amplification>>,
          <<88, st.right_tone>>,
          <<92, BoolFloat(st.right_conversation_boost)>>,
          <<96, st.right_ambient_noise_reduction>>,
          <<100, st.own_voice_amplification>> >>

\* the pack_into calls in program order, as <<offset, value>>
SettingsWrites(st) ==
    [i \in 1..8 |-> <<4 + (i - 1) * 4, st.left_eq[i]>>]
    \o << <<36, st.left_amplification>>,
          <<40, st.left_tone>>,
          <<44, BoolFloat(st.left_conversation_boost)>>,
          <<48, st.left_ambient_noise_reduction>> >>
    \o [i \in 1..8 |-> <<52 + (i - 1) * 4, st.right_eq[i]>>]
    \o << <<84, st.right_amplification>>,
          <<88, st.right_tone>>,
          <<92, BoolFloat(st.right_conversation_boost)>>,
          <<96, st.right_ambient_noise_reduction>>,
          <<100, st.own_voice_amplification>> >>

RECURSIVE ApplyWrites(_, _)
ApplyWrites(buffer, ws) ==
    IF ws = <<>> THEN buffer
    ELSE ApplyWrites(PackInto(buffer, Head(ws)[1], Head(ws)[2]), Tail(ws))

\* buffer = bytearray(data); buffer[2] = 0x64; the pack_into calls.
\* pack_into past the end of the buffer raises struct.error.
EncodeRaises(d, st) ==
    \E k \in 1..Len(SettingsWrites(st)) :
        \/ PackRaises(SettingsWrites(st)[k][2])
        \/ SettingsWrites(st)[k][1] + 4 > Len(d)

\* MUTANT of EncodeBuffer: a fresh 104-byte record instead of a patched copy
EncodeBuffer_Fresh(d, st) ==
    ApplyWrites([i \in 1..MinSettingsLen |-> IF i = 3 THEN MarkerByte ELSE 0], SettingsWrites(st))

EncodeBuffer(d, st) ==
    ApplyWrites([i \in 1..Len(d) |-> IF i = 3 THEN MarkerByte ELSE d[i]], SettingsWrites(st))

\* len(data) < 104 in send_hearing_aid_settings
SendGuardShort(d) == Len(d) < MinSettingsLen

\* MUTANT of SendOutcome: the length check is missing
SendOutcome_NoGuard(d, st) ==
    IF EncodeRaises(d, st) THEN [wrote |-> FALSE, raised |-> TRUE, buf |-> <<>>]
    ELSE [wrote |-> TRUE, raised |-> FALSE, buf |-> EncodeBuffer(d, st)]

\* send_hearing_aid_settings reaches att_manager.write with prior buffer d
SendWrites(d, st) == ~SendGuardShort(d) /\ ~EncodeRaises(d, st)

\* What send_hearing_aid_settings does once read() has returned d:
\* returns early, raises out of a pack_into, or hands buf to write().
SendOutcome(d, st) ==
    IF SendGuardShort(d) THEN [wrote |-> FALSE, raised |-> FALSE, buf |-> <<>>]
    ELSE IF EncodeRaises(d, st) THEN [wrote |-> FALSE, raised |-> TRUE, buf |-> <<>>]
    ELSE [wrote |-> TRUE, raised |-> FALSE, buf |-> EncodeBuffer(d, st)]

NoOutcome == [wrote |-> FALSE, raised |-> FALSE, buf |-> <<>>, none |-> TRUE]

\* ------------------------------------------------------------------------
\* Inputs of the codec specification
\* ------------------------------------------------------------------------
P_zero    == <<0, 0, 0, 0>>
P_negzero == <<0, 0, 0, 128>>
P_half    == <<0, 0, 0, 63>>
P_075     == <<0, 0, 64, 63>>
P_one     == <<0, 0, 128, 63>>
P_125     == <<0, 0, 160, 63>>
P_two     == <<0, 0, 0, 64>>
P_m1      == <<0, 0, 128, 191>>
P_m3      == <<0, 0, 64, 192>>
P_inf     == <<0, 0, 128, 127>>
P_ninf    == <<0, 0, 128, 255>>
P_qnan    == <<0, 0, 192, 127>>
P_snan    == <<1, 0, 128, 127>>

FieldPatterns == {P_zero, P_negzero, P_half, P_075, P_one, P_two, P_m1, P_inf, P_qnan, P_snan}
AmpPatterns   == {P_zero, P_half, P_075, P_one, P_125, P_two, P_m1, P_m3, P_inf, P_ninf, P_qnan}

Fills == {"zero", "ones", "ramp"}
FillByte(fill, i) ==
    IF fill = "zero" THEN 0 ELSE IF fill = "ones" THEN 255 ELSE (i * 7 + 3) % 256

BufLens == {0, 3, 50, MinSettingsLen - 1} \cup (MinSettingsLen..(MinSettingsLen + MaxExtra))

\* a buffer of n bytes: the fill, then the two amplification fields, then
\* field number f (offset 4 + 4 f) set to pattern p
MkBuf(n, fill, la, ra, f, p) ==
    [i \in 1..n |->
        IF i \in (4 + 4 * f + 1)..(4 + 4 * f + 4) THEN p[i - (4 + 4 * f)]
        ELSE IF i \in 37..40 THEN la[i - 36]
        ELSE IF i \in 85..88 THEN ra[i - 84]
        ELSE FillByte(fill, i)]

CodecInputs ==
    {MkBuf(n, fill, P_one, P_one, f, p) :
        n \in BufLens, fill \in Fills, f \in ({0, 1, 7, 9, 10, 11, 12, 19, 21, 22, 23, 24} \ {8, 20}), p \in FieldPatterns}
    \cup
    {MkBuf(n, fill, la, ra, 0, P_zero) :
        n \in {MinSettingsLen, MinSettingsLen + MaxExtra}, fill \in {"zero", "ramp"},
        la \in AmpPatterns, ra \in AmpPatterns}

F32(p) == [s |-> p[4] \div 128, e |-> (p[4] % 128) * 2 + (p[3] \div 128),
           m |-> (p[3] % 128) * 65536 + p[2] * 256 + p[1]]
HugeDouble == [s |-> 0, e |-> 300, m |-> 0]

\* HearingAidSettings(...) as HearingAidApp.send_settings builds it: both ears
\* share tone, conversation boost and noise reduction
UiSettings(eq, la, ra, tone, conv, anr, amp, bal, ov) ==
    [none |-> FALSE,
     left_eq |-> [i \in 1..8 |-> eq], right_eq |-> [i \in 1..8 |-> eq],
     left_amplification |-> la, right_amplification |-> ra,
     left_tone |-> tone, right_tone |-> tone,
     left_conversation_boost |-> conv, right_conversation_boost |-> conv,
     left_ambient_noise_reduction |-> anr, right_ambient_noise_reduction |-> anr,
     net_amplification |-> amp, balance |-> bal,
     own_voice_amplification |-> ov]

UserSettings ==
    { UiSettings(F32(P_zero), F32(P_half), F32(P_half), F32(P_half), FALSE, F32(P_zero),
                 Fin(4), Fin(0), F32(P_half)),
      UiSettings(F32(P_two), F32(P_m1), F32(P_one), F32(P_m1), TRUE, F32(P_one),
                 Fin(0 - 8), Fin(8), F32(P_075)),
      UiSettings(HugeDouble, F32(P_one), F32(P_one), F32(P_zero), TRUE, F32(P_zero),
                 Fin(8), Fin(0), F32(P_half)) }

\* ------------------------------------------------------------------------
\* ATT session: threads of control, sockets, PDUs
\* ------------------------------------------------------------------------
TNames == <<"t1", "t2", "t3", "t4">>
Threads == {TNames[i] : i \in 1..MaxSocks}
Senders == {"s1", "s2"}
Callers == {"ui"} \cup Senders
Procs == Callers \cup Threads
Socks == 1..MaxSocks

\* ATT_HANDLES[handle.name] and ATT_CCCD_HANDLES[handle.name]
ATT_HANDLES(name) ==
    IF name = "TRANSPARENCY" THEN HANDLE_TRANSPARENCY
    ELSE IF name = "LOUD_SOUND_REDUCTION" THEN HANDLE_LOUD_SOUND_REDUCTION
    ELSE HANDLE_HEARING_AID
ATT_CCCD_HANDLES(name) == ATT_HANDLES(name) + 1

\* MUTANT of ReadPdu: the handle is sent high byte first
ReadPdu_BigEndian(h) == <<OPCODE_READ_REQUEST, (h \div 256) % 256, h % 256>>

\* bytes([OPCODE_READ_REQUEST, lsb, msb])
ReadPdu(h) == <<OPCODE_READ_REQUEST, h % 256, (h \div 256) % 256>>
\* bytes([OPCODE_WRITE_REQUEST, lsb, msb]) + value
WritePdu(h, value) == <<OPCODE_WRITE_REQUEST, h % 256, (h \div 256) % 256>> \o value

\* a PDU on its way from the accessory: the bytes, and for a response the
\* request it answers (re, 0 if unsolicited) and the caller that sent it (by)
Item(pdu, re, by) == [pdu |-> pdu, re |-> re, by |-> by]
NoItem == Item(<<>>, 0, "none")
NoOutcomeYet == [op |-> "none", res |-> "none", by |-> "none", opc |-> 0 - 1, live |-> FALSE]

\* pdu[1:]
Strip(pdu) == IF pdu = <<>> THEN <<>> ELSE Tail(pdu)
OpcodeOf(pdu) == IF pdu = <<>> THEN 0 - 1 ELSE pdu[1]

\* MUTANT of IsNotification: the opcode test is missing, any PDU of 3 bytes
\* or more is dispatched and everything else is handed to the reader
IsNotification_AnyOpcode(pdu) == Len(pdu) >= 3

\* len(pdu) > 0 and pdu[0] == OPCODE_HANDLE_VALUE_NTF
IsNotification(pdu) == Len(pdu) > 0 /\ pdu[1] = OPCODE_HANDLE_VALUE_NTF

\* pdu[1] | (pdu[2] << 8)
NtfHandle(pdu) == pdu[2] + pdu[3] * 256
\* pdu[3:]
NtfValue(pdu) == SubSeq(pdu, 4, Len(pdu))

LongBuf  == MkBuf(MinSettingsLen, "ramp", P_one, P_two, 0, P_zero)
ShortBuf == <<1, 2, 3>>
ReadPayloads == {LongBuf, ShortBuf}

NtfLong  == <<OPCODE_HANDLE_VALUE_NTF, HANDLE_HEARING_AID, 0>> \o LongBuf
NtfShort == <<OPCODE_HANDLE_VALUE_NTF, HANDLE_HEARING_AID, 0, 7>>
NtfHigh  == <<OPCODE_HANDLE_VALUE_NTF, HANDLE_HEARING_AID, 1, 5>>
NtfTrunc == <<OPCODE_HANDLE_VALUE_NTF, HANDLE_HEARING_AID>>
EmptyPdu == <<>>
IndPdu   == <<29, HANDLE_HEARING_AID, 0, 9>>
UnsolicitedPdus == {NtfLong, NtfShort, NtfHigh, NtfTrunc, EmptyPdu, IndPdu}

\* the record the senders submit
SenderSettings ==
    UiSettings(F32(P_zero), F32(P_half), F32(P_half), F32(P_half), FALSE, F32(P_zero),
               Fin(4), Fin(0), F32(P_half))

Live(t) == pc[t] \notin {"none", "done", "crashed"}
InLoop(t) == pc[t] \in {"check", "dispatch", "exit"}

SessInit ==
    /\ sock = 0
    /\ sockSt = [s \in Socks |-> "none"]
    /\ running = FALSE
    /\ nthread = "none"
    /\ responses = <<>>
    /\ listeners = <<>>
    /\ pc = [p \in Procs |-> IF p = "ui" THEN "init" ELSE IF p \in Senders THEN "off" ELSE "none"]
    /\ uimode = "att"
    /\ tpdu = [t \in Threads |-> NoItem]
    /\ tidx = [t \in Threads |-> 0]
    /\ sdata = [c \in Senders |-> <<>>]
    /\ inbox = [s \in Socks |-> <<>>]
    /\ devq = [s \in Socks |-> <<>>]
    /\ nsock = 0 /\ nthr = 0 /\ nreq = 0 /\ nnotify = 0 /\ nloss = 0 /\ ndisc = 0
    /\ hist = [c \in Callers |-> NoOutcomeYet]
    /\ creq = [c \in Callers |-> 0]
    /\ calls = <<>>
    /\ emitted = 0
    /\ tatt = [t \in Threads |-> 0]
    /\ autoFailed = FALSE
    /\ discCalled = FALSE
    /\ uilog = <<>>

Last2(log, e) == IF log = <<>> THEN <<e>> ELSE <<log[Len(log)], e>>

\* ------------------------------------------------------------------------
\* ATTManager.connect, run by the UI thread or by a receive thread
\* ------------------------------------------------------------------------
\* connect() returns to p
ConnectReturn(p, pcs) ==
    IF p \in Threads
    THEN /\ pc' = [pcs EXCEPT ![p] = "done"]
         /\ UNCHANGED uilog
    ELSE /\ pc' = [pcs EXCEPT ![p] = IF uimode = "att" THEN "cccd_send" ELSE "idle"]
         /\ uilog' = Last2(uilog, "connect_ok")

\* MUTANT of ConnectRaise: a failed reconnect is tried again
ConnectRaise_Retry(p) ==
    IF p \in Threads
    THEN /\ pc' = [pc EXCEPT ![p] = "exit"]
         /\ autoFailed' = TRUE
         /\ UNCHANGED uilog
    ELSE /\ pc' = [pc EXCEPT ![p] = "idle"]
         /\ uilog' = Last2(uilog, "connect_raised")
         /\ UNCHANGED autoFailed

\* connect() raises in p: a receive thread catches it (line 167) and ends,
\* the UI thread's caller sees the error
ConnectRaise(p) ==
    IF p \in Threads
    THEN /\ pc' = [pc EXCEPT ![p] = "done"]
         /\ autoFailed' = TRUE
         /\ UNCHANGED uilog
    ELSE /\ pc' = [pc EXCEPT ![p] = "idle"]
         /\ uilog' = Last2(uilog, "connect_raised")
         /\ UNCHANGED autoFailed

\* line 50: self.sock = Socket(...)
Connect50(p) ==
    /\ pc[p] = "c50"
    /\ nsock < MaxSocks
    /\ nsock' = nsock + 1
    /\ sock' = nsock + 1
    /\ sockSt' = [sockSt EXCEPT ![nsock + 1] = "new"]
    /\ pc' = [pc EXCEPT ![p] = "c51"]
    /\ UNCHANGED <<running, nthread, responses, listeners, uimode, tpdu, tidx, sdata,
                   inbox, devq, nthr, nreq, nnotify, nloss, ndisc, obsVars, codecVars, uiVars>>

\* lines 51-53: self.sock.connect(...); self.sock.settimeout(0.1);
\* self.running = True.  connect and settimeout raise on a closed socket.
Connect51(p) ==
    /\ pc[p] = "c51"
    /\ \E ok \in BOOLEAN :
          IF ok /\ sockSt[sock] = "new"
          THEN /\ sockSt' = [sockSt EXCEPT ![sock] = "open"]
               /\ running' = TRUE
               /\ pc' = [pc EXCEPT ![p] = "c54"]
               /\ UNCHANGED <<autoFailed, uilog>>
          ELSE /\ ConnectRaise(p)
               /\ UNCHANGED <<sockSt, running>>
    /\ UNCHANGED <<sock, nthread, responses, listeners, uimode, tpdu, tidx, sdata,
                   inbox, devq, nsock, nthr, nreq, nnotify, nloss, ndisc,
                   hist, creq, calls, emitted, tatt, discCalled, codecVars, uiVars>>

\* line 54: self.notification_thread = Thread(target=self._listen_notifications)
Connect54(p) ==
    /\ pc[p] = "c54"
    /\ nthr < MaxSocks
    /\ nthr' = nthr + 1
    /\ nthread' = TNames[nthr + 1]
    /\ pc' = [pc EXCEPT ![p] = "c55", ![TNames[nthr + 1]] = "created"]
    /\ UNCHANGED <<sock, sockSt, running, responses, listeners, uimode, tpdu, tidx, sdata,
                   inbox, devq, nsock, nreq, nnotify, nloss, ndisc, obsVars, codecVars, uiVars>>

\* line 55: self.notification_thread.start(), then connect() returns
Connect55(p) ==
    /\ pc[p] = "c55"
    /\ pc[nthread] = "created"
    /\ ConnectReturn(p, [pc EXCEPT ![nthread] = "check"])
    /\ UNCHANGED <<attVars, uimode, tpdu, tidx, sdata, envVars,
                   hist, creq, calls, emitted, tatt, autoFailed, discCalled, codecVars, uiVars>>

\* ------------------------------------------------------------------------
\* ATTManager.disconnect, run by the UI thread
\* ------------------------------------------------------------------------
\* line 60: self.running = False
Disconnect60 ==
    /\ pc["ui"] \in {"init", "idle"}
    /\ ndisc < MaxDisc
    /\ ndisc' = ndisc + 1
    /\ running' = FALSE
    /\ discCalled' = TRUE
    /\ pc' = [pc EXCEPT !["ui"] = "d61"]
    /\ UNCHANGED <<sock, sockSt, nthread, responses, listeners, uimode, tpdu, tidx, sdata,
                   inbox, devq, nsock, nthr, nreq, nnotify, nloss,
                   hist, creq, calls, emitted, tatt, autoFailed, uilog, codecVars, uiVars>>

\* lines 61-67: if self.sock: self.sock.close(); if self.notification_thread:
\* join(timeout=1.0).  join raises RuntimeError on a thread that was not
\* started; otherwise it returns when the thread has ended or the second has
\* passed.
Disconnect61 ==
    /\ pc["ui"] = "d61"
    /\ IF sock # 0
       THEN /\ sockSt' = [sockSt EXCEPT ![sock] = "closed"]
            /\ inbox' = [inbox EXCEPT ![sock] = <<>>]
            /\ devq' = [devq EXCEPT ![sock] = <<>>]
       ELSE UNCHANGED <<sockSt, inbox, devq>>
    /\ uilog' = Last2(uilog, IF nthread # "none" /\ pc[nthread] = "created"
                             THEN "disconnect_raised" ELSE "disconnect_ok")
    /\ pc' = [pc EXCEPT !["ui"] = "idle"]
    /\ UNCHANGED <<sock, running, nthread, responses, listeners, uimode, tpdu, tidx, sdata,
                   nsock, nthr, nreq, nnotify, nloss, ndisc,
                   hist, creq, calls, emitted, tatt, autoFailed, discCalled, codecVars, uiVars>>

\* ------------------------------------------------------------------------
\* ATTManager._listen_notifications, one receive thread t
\* ------------------------------------------------------------------------
\* lines 146-162 up to the for loop: while self.running; _read_pdu on
\* self.sock; a hard error breaks, a timeout continues, a notification is
\* looked up in the listeners (IndexError when it has fewer than 3 bytes),
\* anything else is put in the responses queue
LoopRecv(t) ==
    /\ pc[t] = "check"
    /\ IF ~running \/ sockSt[sock] # "open"
       THEN /\ pc' = [pc EXCEPT ![t] = "exit"]
            /\ UNCHANGED <<inbox, responses, tpdu, tidx>>
       ELSE IF inbox[sock] = <<>>
       THEN /\ pc' = [pc EXCEPT ![t] = "check"]
            /\ UNCHANGED <<inbox, responses, tpdu, tidx>>
       ELSE LET item == Head(inbox[sock])
                pdu  == item.pdu
            IN  /\ inbox' = [inbox EXCEPT ![sock] = Tail(@)]
                /\ IF IsNotification(pdu)
                   THEN /\ UNCHANGED responses
                        /\ IF Len(pdu) < 3
                           THEN /\ pc' = [pc EXCEPT ![t] = "crashed"]
                                /\ UNCHANGED <<tpdu, tidx>>
                           ELSE IF NtfHandle(pdu) \in DOMAIN listeners
                           THEN /\ pc' = [pc EXCEPT ![t] = "dispatch"]
                                /\ tpdu' = [tpdu EXCEPT ![t] = item]
                                /\ tidx' = [tidx EXCEPT ![t] = 0]
                           ELSE /\ pc' = [pc EXCEPT ![t] = "check"]
                                /\ UNCHANGED <<tpdu, tidx>>
                   ELSE /\ responses' = Append(responses, item)
                        /\ pc' = [pc EXCEPT ![t] = "check"]
                        /\ UNCHANGED <<tpdu, tidx>>
    /\ UNCHANGED <<sock, sockSt, running, nthread, listeners, uimode, sdata,
                   devq, nsock, nthr, nreq, nnotify, nloss, ndisc, obsVars, codecVars, uiVars>>

\* HearingAidApp.on_notification(value): parse, emit update_ui if it parsed
OnNotificationEmits(value) == parse_hearing_aid_settings(value) # NoSettings

\* lines 159-160: for listener in self.listeners[handle]: listener(value)
LoopDispatch(t) ==
    /\ pc[t] = "dispatch"
    /\ LET pdu == tpdu[t].pdu
           lst == listeners[NtfHandle(pdu)]
       IN IF tidx[t] < Len(lst)
          THEN /\ calls' = Append(calls, [l |-> lst[tidx[t] + 1], pdu |-> pdu,
                                          v |-> NtfValue(pdu)])
               /\ emitted' = IF lst[tidx[t] + 1] = "on_notification"
                                /\ OnNotificationEmits(NtfValue(pdu))
                             THEN emitted + 1 ELSE emitted
               /\ tidx' = [tidx EXCEPT ![t] = @ + 1]
               /\ UNCHANGED <<pc, tpdu>>
          ELSE /\ pc' = [pc EXCEPT ![t] = "check"]
               /\ tpdu' = [tpdu EXCEPT ![t] = NoItem]
               /\ tidx' = [tidx EXCEPT ![t] = 0]
               /\ UNCHANGED <<calls, emitted>>
    /\ UNCHANGED <<attVars, uimode, sdata, envVars, hist, creq, tatt, autoFailed, discCalled,
                   uilog, codecVars, uiVars>>

\* lines 163-166: after the loop, if self.running: self.connect()
LoopExit(t) ==
    /\ pc[t] = "exit"
    /\ IF running
       THEN /\ pc' = [pc EXCEPT ![t] = "c50"]
            /\ tatt' = [tatt EXCEPT ![t] = @ + 1]
       ELSE /\ pc' = [pc EXCEPT ![t] = "done"]
            /\ UNCHANGED tatt
    /\ UNCHANGED <<attVars, uimode, tpdu, tidx, sdata, envVars,
                   hist, creq, calls, emitted, autoFailed, discCalled, uilog, codecVars, uiVars>>

\* ------------------------------------------------------------------------
\* Requests: _write_raw and _read_response as run by caller c
\* ------------------------------------------------------------------------
\* the outcome of a request: what was asked (op), how it ended (res), and for
\* a response the caller whose request it answers (by), whether that caller
\* was still waiting for it (live), and its opcode (opc)
Outcome(op, res, item) ==
    [op |-> op, res |-> res, by |-> item.by, opc |-> OpcodeOf(item.pdu),
     live |-> item.by \in Callers /\ creq[item.by] = item.re]

\* _write_raw(pdu): self.sock.send(pdu).  On success the accessory has the
\* request; send raises when there is no socket or it is not connected.
WriteRaw(c, op, pdu, okpc, failpc) ==
    IF sock # 0 /\ sockSt[sock] = "open"
    THEN /\ nreq' = nreq + 1
         /\ devq' = [devq EXCEPT ![sock] = Append(@, [id |-> nreq + 1, by |-> c, opc |-> pdu[1], pdu |-> pdu])]
         /\ pc' = [pc EXCEPT ![c] = okpc]
         /\ creq' = [creq EXCEPT ![c] = nreq + 1]
         /\ UNCHANGED hist
    ELSE /\ hist' = [hist EXCEPT ![c] = Outcome(op, "send_raised", NoItem)]
         /\ pc' = [pc EXCEPT ![c] = failpc]
         /\ UNCHANGED <<nreq, devq, creq>>

\* MUTANT of TimeoutPc: a write's timeout is raised to the caller like a read's
TimeoutPc_Escalate(op, okpc, failpc) == failpc

\* where the caller continues when self.responses.get(timeout) raised:
\* read() lets the exception out, write() and write_cccd() catch it
TimeoutPc(op, okpc, failpc) == IF op = "read" THEN failpc ELSE okpc

\* how a timeout ends for the caller, from where it continues
TimeoutRes(op) ==
    IF TimeoutPc(op, "returned", "raised") = "raised" THEN "timeout_raised" ELSE "timeout_logged"

\* _read_response(): the head of the queue if there is one; with the queue
\* empty for the whole timeout, the exception
ReadResponseGet(c, op, okpc) ==
    /\ responses # <<>>
    /\ responses' = Tail(responses)
    /\ hist' = [hist EXCEPT ![c] = Outcome(op, "response", Head(responses))]
    /\ creq' = [creq EXCEPT ![c] = 0]
    /\ pc' = [pc EXCEPT ![c] = okpc]

\* MUTANT of ReadResponseTimeout: responses.get() with no timeout never raises
ReadResponseTimeout_Blocks(c, op, okpc, failpc) ==
    /\ FALSE
    /\ UNCHANGED <<responses, hist, creq, pc>>

ReadResponseTimeout(c, op, okpc, failpc) ==
    /\ responses = <<>>
    /\ UNCHANGED responses
    /\ hist' = [hist EXCEPT ![c] = Outcome(op, TimeoutRes(op), NoItem)]
    /\ creq' = [creq EXCEPT ![c] = 0]
    /\ pc' = [pc EXCEPT ![c] = TimeoutPc(op, okpc, failpc)]

\* ------------------------------------------------------------------------
\* The UI thread: HearingAidApp.connect_att, then connect()/disconnect()
\* ------------------------------------------------------------------------
\* self.att_manager.connect() in connect_att
UiConnectAtt ==
    /\ pc["ui"] = "init"
    /\ pc' = [pc EXCEPT !["ui"] = "c50"]
    /\ uimode' = "att"
    /\ autoFailed' = FALSE
    /\ discCalled' = FALSE
    /\ UNCHANGED <<attVars, tpdu, tidx, sdata, envVars, hist, creq, calls, emitted, tatt, uilog,
                   codecVars, uiVars>>

\* the caller calls connect() on a session that has no receive thread
UiConnect ==
    /\ pc["ui"] = "idle"
    /\ \A t \in Threads : ~Live(t)
    /\ nsock < MaxSocks
    /\ pc' = [pc EXCEPT !["ui"] = "c50"]
    /\ uimode' = "manual"
    /\ autoFailed' = FALSE
    /\ discCalled' = FALSE
    /\ UNCHANGED <<attVars, tpdu, tidx, sdata, envVars, hist, creq, calls, emitted, tatt, uilog,
                   codecVars, uiVars>>

\* enable_notifications: write_cccd(handle, b'\x01\x00'), the send
UiCccdSend ==
    /\ pc["ui"] = "cccd_send"
    /\ WriteRaw("ui", "cccd", WritePdu(ATT_CCCD_HANDLES("HEARING_AID"), <<1, 0>>),
                "cccd_wait", "idle")
    /\ UNCHANGED <<attVars, uimode, tpdu, tidx, sdata, inbox, nsock, nthr, nnotify, nloss,
                   ndisc, calls, emitted, tatt, autoFailed, discCalled, uilog, codecVars, uiVars>>

\* write_cccd: the wait for the response
UiCccdWait ==
    /\ pc["ui"] = "cccd_wait"
    /\ \/ ReadResponseGet("ui", "cccd", "register")
       \/ ReadResponseTimeout("ui", "cccd", "register", "idle")
    /\ UNCHANGED <<sock, sockSt, running, nthread, listeners, uimode, tpdu, tidx, sdata,
                   envVars, calls, emitted, tatt, autoFailed, discCalled, uilog, codecVars, uiVars>>

\* register_listener(handle, listener)
RegisterListener(h, l) ==
    listeners' = [k \in DOMAIN listeners \cup {h} |->
                     IF k = h
                     THEN (IF h \in DOMAIN listeners THEN Append(listeners[h], l) ELSE <<l>>)
                     ELSE listeners[k]]

\* self.listeners[handle].remove(listener): the first occurrence goes
RECURSIVE RemoveFirst(_, _)
RemoveFirst(lst, l) ==
    IF lst = <<>> THEN <<>>
    ELSE IF Head(lst) = l THEN Tail(lst)
    ELSE <<Head(lst)>> \o RemoveFirst(Tail(lst), l)

\* unregister_listener(handle, listener) for a registered listener
UnregisterListener(h, l) ==
    listeners' = [listeners EXCEPT ![h] = RemoveFirst(@, l)]

Callbacks == {"cbA", "cbB"}
ListenerHandles == {HANDLE_HEARING_AID, HANDLE_TRANSPARENCY}
IsIn(l, lst) == \E j \in 1..Len(lst) : lst[j] = l
Registered(h, l) == h \in DOMAIN listeners /\ IsIn(l, listeners[h])
RECURSIVE SumLen(_)
SumLen(hs) ==
    IF hs = {} THEN 0
    ELSE LET h == CHOOSE x \in hs : TRUE IN Len(listeners[h]) + SumLen(hs \ {h})

\* the owner of the session registers another callback while the receive
\* thread runs
ApiRegister(h, l) ==
    /\ pc["ui"] = "idle"
    /\ ~Registered(h, l)
    /\ SumLen(DOMAIN listeners) < MaxReg
    /\ RegisterListener(h, l)
    /\ UNCHANGED <<sock, sockSt, running, nthread, responses, ctlVars,
                   envVars, obsVars, codecVars, uiVars>>

\* the owner of the session removes a registered callback while the receive
\* thread runs (for a callback that is not in the list, remove raises
\* ValueError and nothing changes)
ApiUnregister(h, l) ==
    /\ pc["ui"] = "idle"
    /\ Registered(h, l)
    /\ UnregisterListener(h, l)
    /\ UNCHANGED <<sock, sockSt, running, nthread, responses, ctlVars,
                   envVars, obsVars, codecVars, uiVars>>

UiRegister ==
    /\ pc["ui"] = "register"
    /\ RegisterListener(ATT_HANDLES("HEARING_AID"), "on_notification")
    /\ pc' = [pc EXCEPT !["ui"] = "read_send"]
    /\ UNCHANGED <<sock, sockSt, running, nthread, responses, uimode, tpdu, tidx, sdata,
                   envVars, obsVars, codecVars, uiVars>>

\* the initial read, the send
UiReadSend ==
    /\ pc["ui"] = "read_send"
    /\ WriteRaw("ui", "read", ReadPdu(ATT_HANDLES("HEARING_AID")), "read_wait", "idle")
    /\ UNCHANGED <<attVars, uimode, tpdu, tidx, sdata, inbox, nsock, nthr, nnotify, nloss,
                   ndisc, calls, emitted, tatt, autoFailed, discCalled, uilog, codecVars, uiVars>>

\* the initial read, the wait; then parse and emit
UiReadWait ==
    /\ pc["ui"] = "read_wait"
    /\ \/ /\ ReadResponseGet("ui", "read", "idle")
          /\ emitted' = IF parse_hearing_aid_settings(Strip(Head(responses).pdu)) # NoSettings
                        THEN emitted + 1 ELSE emitted
       \/ /\ ReadResponseTimeout("ui", "read", "idle", "idle")
          /\ UNCHANGED emitted
    /\ UNCHANGED <<sock, sockSt, running, nthread, listeners, uimode, tpdu, tidx, sdata,
                   envVars, calls, tatt, autoFailed, discCalled, uilog, codecVars, uiVars>>

\* ------------------------------------------------------------------------
\* send_hearing_aid_settings in a thread started by HearingAidApp.send_settings
\* ------------------------------------------------------------------------
\* Thread(target=send_hearing_aid_settings, ...).start() from the UI thread
SenderStart(c) ==
    /\ pc[c] = "off"
    /\ pc["ui"] = "idle"
    /\ pc' = [pc EXCEPT ![c] = "read_send"]
    /\ UNCHANGED <<attVars, uimode, tpdu, tidx, sdata, envVars, obsVars, codecVars, uiVars>>

SenderReadSend(c) ==
    /\ pc[c] = "read_send"
    /\ WriteRaw(c, "read", ReadPdu(ATT_HANDLES("HEARING_AID")), "read_wait", "died")
    /\ UNCHANGED <<attVars, uimode, tpdu, tidx, sdata, inbox, nsock, nthr, nnotify, nloss,
                   ndisc, calls, emitted, tatt, autoFailed, discCalled, uilog, codecVars, uiVars>>

\* data = att_manager.read(...); the length check and the encode
SenderReadWait(c) ==
    /\ pc[c] = "read_wait"
    /\ \/ LET d == Strip(Head(responses).pdu)
          IN /\ ReadResponseGet(c, "read",
                    IF SendWrites(d, SenderSettings) THEN "write_send"
                    ELSE IF SendGuardShort(d) THEN "done" ELSE "died")
             /\ sdata' = [sdata EXCEPT ![c] = d]
       \/ /\ ReadResponseTimeout(c, "read", "done", "died")
          /\ UNCHANGED sdata
    /\ UNCHANGED <<sock, sockSt, running, nthread, listeners, uimode, tpdu, tidx,
                   envVars, calls, emitted, tatt, autoFailed, discCalled, uilog, codecVars, uiVars>>

\* att_manager.write(handle, buffer), the send
SenderWriteSend(c) ==
    /\ pc[c] = "write_send"
    /\ WriteRaw(c, "write",
                WritePdu(ATT_HANDLES("HEARING_AID"), EncodeBuffer(sdata[c], SenderSettings)),
                "write_wait", "died")
    /\ sdata' = [sdata EXCEPT ![c] = <<>>]
    /\ UNCHANGED <<attVars, uimode, tpdu, tidx, inbox, nsock, nthr, nnotify, nloss,
                   ndisc, calls, emitted, tatt, autoFailed, discCalled, uilog, codecVars, uiVars>>

SenderWriteWait(c) ==
    /\ pc[c] = "write_wait"
    /\ \/ ReadResponseGet(c, "write", "done")
       \/ ReadResponseTimeout(c, "write", "done", "died")
    /\ UNCHANGED <<sock, sockSt, running, nthread, listeners, uimode, tpdu, tidx, sdata,
                   envVars, calls, emitted, tatt, autoFailed, discCalled, uilog, codecVars, uiVars>>

\* ------------------------------------------------------------------------
\* The accessory and the link
\* ------------------------------------------------------------------------
\* the accessory answers the oldest request it has on socket s
DeviceRespond(s) ==
    /\ sockSt[s] = "open"
    /\ devq[s] # <<>>
    /\ LET r == Head(devq[s])
       IN \E payload \in ReadPayloads :
             /\ r.opc = OPCODE_WRITE_REQUEST => payload = ShortBuf
             /\ inbox' = [inbox EXCEPT ![s] =
                            Append(@, Item(IF r.opc = OPCODE_READ_REQUEST
                                           THEN <<11>> \o payload ELSE <<19>>, r.id, r.by))]
    /\ devq' = [devq EXCEPT ![s] = Tail(@)]
    /\ UNCHANGED <<attVars, ctlVars, nsock, nthr, nreq, nnotify, nloss, ndisc, obsVars,
                   codecVars, uiVars>>

\* the accessory sends a PDU nobody asked for
DeviceNotify(s) ==
    /\ sockSt[s] = "open"
    /\ nnotify < MaxNotify
    /\ nnotify' = nnotify + 1
    /\ \E pdu \in UnsolicitedPdus :
          inbox' = [inbox EXCEPT ![s] = Append(@, Item(pdu, 0, "none"))]
    /\ UNCHANGED <<attVars, ctlVars, devq, nsock, nthr, nreq, nloss, ndisc, obsVars,
                   codecVars, uiVars>>

\* the link drops: receive and send on s fail from now on
LinkLoss(s) ==
    /\ sockSt[s] = "open"
    /\ nloss < MaxLoss
    /\ nloss' = nloss + 1
    /\ sockSt' = [sockSt EXCEPT ![s] = "lost"]
    /\ inbox' = [inbox EXCEPT ![s] = <<>>]
    /\ devq' = [devq EXCEPT ![s] = <<>>]
    /\ UNCHANGED <<sock, running, nthread, responses, listeners, ctlVars,
                   nsock, nthr, nreq, nnotify, ndisc, obsVars, codecVars, uiVars>>

\* ------------------------------------------------------------------------
\* Session specification
\* ------------------------------------------------------------------------
CodecOff ==
    /\ quietsNaN = TRUE
    /\ data = <<>>
    /\ parsed = NoSettings
    /\ submitted = NoSettings
    /\ out = NoOutcome
    /\ cpc = "off"

\* ------------------------------------------------------------------------
\* HearingAidApp.send_settings: the per-ear amplification
\* ------------------------------------------------------------------------
SliderMin == 0 - 100
SliderMax == 100
NoSliders == [none |-> TRUE]
NoPerEar == [none |-> TRUE]

\* MUTANT of LeftAmp: the left value is computed for every balance
LeftAmp_Always(a, b) == 100 * a + (50 - b) * a * 2

\* line 435: left_amp = amp + (0.5 - balance) * amp * 2 if balance < 0 else amp
\* with amp = a / 100.0 and balance = b / 100.0, the result in 1/10000
LeftAmp(a, b) == IF b < 0 THEN 100 * a + (50 - b) * a * 2 ELSE 100 * a

\* line 436: right_amp = amp + (balance - 0.5) * amp * 2 if balance > 0 else amp
RightAmp(a, b) == IF b > 0 THEN 100 * a + (b - 50) * a * 2 ELSE 100 * a

UiOff == sliders = NoSliders /\ perEar = NoPerEar

\* lines 428-436: the slider positions are read and the per-ear values computed
SendSettings ==
    /\ sliders # NoSliders
    /\ perEar = NoPerEar
    /\ perEar' = [none |-> FALSE,
                  left  |-> LeftAmp(sliders.amp, sliders.balance),
                  right |-> RightAmp(sliders.amp, sliders.balance)]
    /\ UNCHANGED <<sliders, sessVars, codecVars>>

UiInit ==
    /\ SessInit
    /\ CodecOff
    /\ sliders \in [none : {FALSE}, amp : SliderMin..SliderMax, balance : SliderMin..SliderMax]
    /\ perEar = NoPerEar

UiSpec == UiInit /\ [][SendSettings]_vars

Init == SessInit /\ CodecOff /\ UiOff

\* One caller: connect_att, the receive loop with its dispatch, link loss,
\* reconnect, disconnect() and connect() by the caller, the accessory
Next ==
    \/ UiConnectAtt
    \/ UiConnect
    \/ \E p \in {"ui"} \cup Threads : Connect50(p)
    \/ \E p \in {"ui"} \cup Threads : Connect51(p)
    \/ \E p \in {"ui"} \cup Threads : Connect54(p)
    \/ \E p \in {"ui"} \cup Threads : Connect55(p)
    \/ Disconnect60
    \/ Disconnect61
    \/ \E t \in Threads : LoopRecv(t)
    \/ \E t \in Threads : LoopDispatch(t)
    \/ \E t \in Threads : LoopExit(t)
    \/ UiCccdSend
    \/ UiCccdWait
    \/ UiRegister
    \/ UiReadSend
    \/ UiReadWait
    \/ \E s \in Socks : DeviceRespond(s)
    \/ \E s \in Socks : DeviceNotify(s)
    \/ \E s \in Socks : LinkLoss(s)

Spec == Init /\ [][Next]_vars

\* Overlapping callers: connect_att, then the two send_hearing_aid_settings
\* threads, over a link that stays up
ReqNext ==
    \/ UiConnectAtt
    \/ \E p \in {"ui"} \cup Threads : Connect50(p)
    \/ \E p \in {"ui"} \cup Threads : Connect51(p)
    \/ \E p \in {"ui"} \cup Threads : Connect54(p)
    \/ \E p \in {"ui"} \cup Threads : Connect55(p)
    \/ \E t \in Threads : LoopRecv(t)
    \/ UiCccdSend
    \/ UiCccdWait
    \/ UiRegister
    \/ UiReadSend
    \/ UiReadWait
    \/ \E c \in Senders : SenderStart(c)
    \/ \E c \in Senders : SenderReadSend(c)
    \/ \E c \in Senders : SenderReadWait(c)
    \/ \E c \in Senders : SenderWriteSend(c)
    \/ \E c \in Senders : SenderWriteWait(c)
    \/ \E s \in Socks : DeviceRespond(s)

ReqSpec == Init /\ [][ReqNext]_vars

\* Listeners: connect_att, then callbacks registered and removed by the
\* owner while notifications are dispatched, over a link that stays up
LsnNext ==
    \/ UiConnectAtt
    \/ \E p \in {"ui"} \cup Threads : Connect50(p)
    \/ \E p \in {"ui"} \cup Threads : Connect51(p)
    \/ \E p \in {"ui"} \cup Threads : Connect54(p)
    \/ \E p \in {"ui"} \cup Threads : Connect55(p)
    \/ \E t \in Threads : LoopRecv(t)
    \/ \E t \in Threads : LoopDispatch(t)
    \/ UiCccdSend
    \/ UiCccdWait
    \/ UiRegister
    \/ UiReadSend
    \/ UiReadWait
    \/ \E h \in ListenerHandles, l \in Callbacks : ApiRegister(h, l)
    \/ \E h \in ListenerHandles, l \in Callbacks \cup {"on_notification"} : ApiUnregister(h, l)
    \/ \E s \in Socks : DeviceRespond(s)
    \/ \E s \in Socks : DeviceNotify(s)

LsnSpec == Init /\ [][LsnNext]_vars

\* Calls in flight while the session ends: connect_att, one
\* send_hearing_aid_settings thread, link loss, the receive loop leaving and
\* reconnecting, disconnect() by the owner, the accessory
TermNext ==
    \/ UiConnectAtt
    \/ \E p \in {"ui"} \cup Threads : Connect50(p)
    \/ \E p \in {"ui"} \cup Threads : Connect51(p)
    \/ \E p \in {"ui"} \cup Threads : Connect54(p)
    \/ \E p \in {"ui"} \cup Threads : Connect55(p)
    \/ Disconnect60
    \/ Disconnect61
    \/ \E t \in Threads : LoopRecv(t)
    \/ \E t \in Threads : LoopExit(t)
    \/ UiCccdSend
    \/ UiCccdWait
    \/ UiRegister
    \/ UiReadSend
    \/ UiReadWait
    \/ SenderStart("s1")
    \/ SenderReadSend("s1")
    \/ SenderReadWait("s1")
    \/ SenderWriteSend("s1")
    \/ SenderWriteWait("s1")
    \/ \E s \in Socks : DeviceRespond(s)
    \/ \E s \in Socks : LinkLoss(s)

\* self.responses.get(timeout=timeout) in _read_response: a thread blocked in
\* the timed get is resumed by the item or by the end of the timeout, so a
\* caller at a wait always takes its step
TermFair ==
    /\ WF_vars(UiCccdWait)
    /\ WF_vars(UiReadWait)
    /\ WF_vars(SenderReadWait("s1"))
    /\ WF_vars(SenderWriteWait("s1"))

TermSpec == Init /\ [][TermNext]_vars /\ TermFair

\* ------------------------------------------------------------------------
\* Codec specification: a buffer is drawn, parsed, and a write buffer is
\* built from it, either with the parsed record or with a record of the UI
\* ------------------------------------------------------------------------
CodecInit ==
    /\ SessInit
    /\ quietsNaN \in BOOLEAN
    /\ data \in CodecInputs
    /\ parsed = NoSettings
    /\ submitted = NoSettings
    /\ out = NoOutcome
    /\ cpc = "init"
    /\ UiOff

\* settings = parse_hearing_aid_settings(data)
CodecParse ==
    /\ cpc = "init"
    /\ parsed' = parse_hearing_aid_settings(data)
    /\ cpc' = "parsed"
    /\ UNCHANGED <<quietsNaN, data, submitted, out>>
    /\ UNCHANGED <<sessVars, uiVars>>

\* send_hearing_aid_settings with the record just parsed, the device
\* returning the same buffer as the prior buffer
CodecSendParsed ==
    /\ cpc = "parsed"
    /\ parsed # NoSettings
    /\ submitted' = parsed
    /\ out' = SendOutcome(data, parsed)
    /\ cpc' = "sentback"
    /\ UNCHANGED <<quietsNaN, data, parsed>>
    /\ UNCHANGED <<sessVars, uiVars>>

\* send_hearing_aid_settings with a record built by the UI
CodecSendUser ==
    /\ cpc = "parsed"
    /\ \E st \in UserSettings :
          /\ submitted' = st
          /\ out' = SendOutcome(data, st)
    /\ cpc' = "sentuser"
    /\ UNCHANGED <<quietsNaN, data, parsed>>
    /\ UNCHANGED <<sessVars, uiVars>>

CodecNext == CodecParse \/ CodecSendParsed \/ CodecSendUser

CodecSpec == CodecInit /\ [][CodecNext]_vars

\* ------------------------------------------------------------------------
\* Codec claims
\* ------------------------------------------------------------------------
CodecSent == cpc \in {"sentback", "sentuser"}

\* the bytes of field offset off of the prior buffer, as a 4-tuple
FieldOf(d, off) == <<d[off + 1], d[off + 2], d[off + 3], d[off + 4]>>

\* the field holds a signalling NaN
IsSNaNField(p) == LET x == F32(p) IN x.e = 255 /\ x.m # 0 /\ x.m < QuietBit

FloatOffsets == {4 + 4 * f : f \in 0..24}
ConvOffsets == {44, 92}

\* C7 (as stated): for every buffer b of at least 104 bytes, parse returns a
\* record and the buffer send_hearing_aid_settings builds from b and that
\* record equals b at every offset except offset 2, which is 0x64, the
\* conversation-boost fields at 44 and 92 included.
C7_RoundTripIdentical ==
    /\ (cpc # "init" /\ Len(data) >= MinSettingsLen) => parsed # NoSettings
    /\ (cpc = "sentback") =>
          /\ out.wrote
          /\ Len(out.buf) = Len(data)
          /\ \A i \in 1..Len(data) :
                out.buf[i] = IF i = 3 THEN MarkerByte ELSE data[i]

\* C7 (amended): parse returns a record for every buffer of at least 104
\* bytes; the rebuilt buffer has the same length, holds 0x64 at offset 2,
\* holds at 44 and 92 the encoding of 1.0 when the prior float there was
\* > 0.5 and of 0.0 otherwise, and equals b everywhere else except that a
\* float field holding a signalling NaN may come back with its quiet bit set.
C7_RoundTripAmended ==
    /\ (cpc # "init" /\ Len(data) >= MinSettingsLen) => parsed # NoSettings
    /\ (cpc = "sentback") =>
          /\ out.wrote
          /\ Len(out.buf) = Len(data)
          /\ out.buf[3] = MarkerByte
          /\ \A i \in (1..4) \cup ((MinSettingsLen + 1)..Len(data)) :
                i # 3 => out.buf[i] = data[i]
          /\ \A off \in ConvOffsets :
                FieldOf(out.buf, off) =
                    IF GtHalf(F32(FieldOf(data, off))) THEN P_one ELSE P_zero
          /\ \A off \in FloatOffsets \ ConvOffsets :
                LET old == FieldOf(data, off)
                    new == FieldOf(out.buf, off)
                IN  \/ new = old
                    \/ /\ IsSNaNField(old)
                       /\ new = <<old[1], old[2], old[3] + 64, old[4]>>

\* C7 witness: a round trip over a buffer whose conversation-boost float is
\* 0.75 came back with 1.0 there and the other fields intact
C7_Witness ==
    /\ cpc = "sentback"
    /\ out.wrote
    /\ FieldOf(data, 44) = P_075
    /\ FieldOf(out.buf, 44) = P_one
    /\ FieldOf(out.buf, 40) = FieldOf(data, 40)
    /\ Len(data) > MinSettingsLen

\* C8: parse_hearing_aid_settings returns None for every buffer shorter than
\* 104 bytes, and send_hearing_aid_settings with a prior buffer shorter than
\* 104 bytes hands nothing to write() and raises nothing.
C8_ShortBufferRejected ==
    /\ (cpc # "init" /\ Len(data) < MinSettingsLen) => parsed = NoSettings
    /\ (CodecSent /\ Len(data) < MinSettingsLen) => (~out.wrote /\ ~out.raised)

\* C8 witness: a 103-byte prior buffer went through parse and send
C8_Witness ==
    /\ cpc = "sentuser"
    /\ Len(data) = MinSettingsLen - 1
    /\ parsed = NoSettings
    /\ ~out.wrote

\* C9: the buffer send_hearing_aid_settings writes has the prior buffer's
\* length, equals it at offsets 0, 1, 3 and at every offset >= 104, and holds
\* 0x64 at offset 2.
C9_EncodeIsPatch ==
    (CodecSent /\ out.wrote) =>
        /\ Len(out.buf) = Len(data)
        /\ out.buf[1] = data[1]
        /\ out.buf[2] = data[2]
        /\ out.buf[4] = data[4]
        /\ out.buf[3] = MarkerByte
        /\ \A i \in (MinSettingsLen + 1)..Len(data) : out.buf[i] = data[i]

\* C9 witness: a buffer with trailing bytes was patched with a UI record:
\* some record byte changed, the marker changed, the trailing bytes are there
C9_Witness ==
    /\ cpc = "sentuser"
    /\ out.wrote
    /\ Len(data) > MinSettingsLen
    /\ data[3] # MarkerByte
    /\ data[Len(data)] # 0
    /\ \E i \in 5..MinSettingsLen : out.buf[i] # data[i]

\* clamp to [-1, 1] as a function of an ordered number (eighths)
MathClamp(x) ==
    IF x.k = "ninf" THEN Fin(0 - 8)
    ELSE IF x.k = "pinf" THEN Fin(8)
    ELSE IF x.v < 0 - 8 THEN Fin(0 - 8)
    ELSE IF x.v > 8 THEN Fin(8) ELSE x

InUnitRange(x) == x.k = "fin" /\ x.v >= 0 - 8 /\ x.v <= 8

\* C10: the parsed record has net_amplification = clamp((left+right)/2, -1, 1)
\* and balance = clamp(right-left, -1, 1), both in [-1, 1] for every pair of
\* per-ear values (a NaN average or difference comes out as 1), and
\* left_amplification and right_amplification are the decoded values unclamped.
C10_DerivedClamp ==
    (cpc # "init" /\ parsed # NoSettings) =>
        LET l == StructUnpackF(data, 36)
            r == StructUnpackF(data, 84)
            avg  == NumHalf(NumAdd(ToNum(l), ToNum(r)))
            diff == NumAdd(ToNum(r), NumNeg(ToNum(l)))
        IN  /\ OnGrid(l) \/ IsNaN(l) \/ IsInf(l)
            /\ OnGrid(r) \/ IsNaN(r) \/ IsInf(r)
            /\ parsed.left_amplification = l
            /\ parsed.right_amplification = r
            /\ InUnitRange(parsed.net_amplification)
            /\ InUnitRange(parsed.balance)
            /\ parsed.net_amplification = IF avg.k = "nan" THEN Fin(8) ELSE MathClamp(avg)
            /\ parsed.balance = IF diff.k = "nan" THEN Fin(8) ELSE MathClamp(diff)

\* C10 witness: left 2.0 and right -3.0 parsed: the average -0.5 is kept,
\* the difference -5 is clamped to -1, the per-ear values are returned as read
C10_Witness ==
    /\ cpc = "parsed"
    /\ parsed # NoSettings
    /\ FieldOf(data, 36) = P_two
    /\ FieldOf(data, 84) = P_m3
    /\ ToNum(parsed.left_amplification) = Fin(16)
    /\ ToNum(parsed.right_amplification) = Fin(0 - 24)
    /\ parsed.net_amplification = Fin(0 - 4)
    /\ parsed.balance = Fin(0 - 8)

\* ------------------------------------------------------------------------
\* Session claims
\* ------------------------------------------------------------------------
\* the attribute handle of a notification PDU, little-endian in bytes 1-2
WireHandle(pdu) == pdu[2] + 256 * pdu[3]
TimedOut == {"timeout_raised", "timeout_logged"}
ConnectPcs == {"c50", "c51", "c54", "c55"}
DisconnectEnds == {"disconnect_ok", "disconnect_raised"}

\* the receive loop took the PDU at the head of socket s in this step
Received(s) == inbox[s] # <<>> /\ inbox'[s] = Tail(inbox[s]) /\ sockSt' = sockSt

C1_QueueHasNoNotification ==
    \A i \in 1..Len(responses) : OpcodeOf(responses[i].pdu) # OPCODE_HANDLE_VALUE_NTF

C1_ReaderNeverGetsNotification ==
    \A c \in Callers : hist[c].res = "response" => hist[c].opc # OPCODE_HANDLE_VALUE_NTF

C1_CallsAreDispatches ==
    \A k \in 1..Len(calls) :
        LET e == calls[k]
        IN /\ Len(e.pdu) >= 3
           /\ e.pdu[1] = OPCODE_HANDLE_VALUE_NTF
           /\ WireHandle(e.pdu) \in DOMAIN listeners
           /\ \E j \in 1..Len(listeners[WireHandle(e.pdu)]) :
                 listeners[WireHandle(e.pdu)][j] = e.l
           /\ e.v = SubSeq(e.pdu, 4, Len(e.pdu))

C1_DispatchInOrder ==
    \A t \in Threads :
        pc[t] = "dispatch" =>
            LET pdu == tpdu[t].pdu
                lst == listeners[WireHandle(pdu)]
            IN /\ tidx[t] <= Len(calls)
               /\ tidx[t] <= Len(lst)
               /\ \A j \in 1..tidx[t] :
                     calls[Len(calls) - tidx[t] + j] =
                         [l |-> lst[j], pdu |-> pdu, v |-> SubSeq(pdu, 4, Len(pdu))]

C1_ReceiveStep ==
    \A s \in Socks :
        Received(s) =>
            LET item == Head(inbox[s])
            IN IF OpcodeOf(item.pdu) = OPCODE_HANDLE_VALUE_NTF
               THEN /\ responses' = responses
                    /\ hist' = hist
                    /\ \A c \in Callers : pc'[c] = pc[c]
                    /\ (/\ Len(item.pdu) >= 3
                        /\ WireHandle(item.pdu) \in DOMAIN listeners)
                       => \E t \in Threads :
                             pc'[t] = "dispatch" /\ tpdu'[t] = item /\ tidx'[t] = 0
               ELSE responses' = Append(responses, item)

C1_DispatchStep ==
    \A t \in Threads :
        (pc[t] = "dispatch" /\ pc'[t] # "dispatch") =>
            tidx[t] = Len(listeners[WireHandle(tpdu[t].pdu)])

C1_ResponseStep ==
    \A c \in Callers :
        (hist'[c] # hist[c] /\ hist'[c].res = "response") =>
            /\ responses # <<>>
            /\ responses' = Tail(responses)
            /\ hist'[c].opc = OpcodeOf(Head(responses).pdu)

\* C1: a PDU with opcode 0x1B received by the loop is never put in the
\* responses queue: a request that is waiting keeps waiting and completes
\* only with a PDU whose opcode is not 0x1B, taken from the head of the
\* queue.  The notification is handed, with the bytes after its 3-byte
\* header, to every listener registered for its handle, in registration
\* order, and to nobody else; every other PDU is appended to the queue.
C1_NotificationsBypassQueue ==
    /\ [](/\ C1_QueueHasNoNotification
          /\ C1_ReaderNeverGetsNotification
          /\ C1_CallsAreDispatches
          /\ C1_DispatchInOrder)
    /\ [][C1_ReceiveStep /\ C1_DispatchStep /\ C1_ResponseStep]_vars

\* the initial read is waiting, a notification has come in meanwhile and
\* its listener has been called, and the queue is still empty
C1_Witness ==
    /\ pc["ui"] = "read_wait"
    /\ responses = <<>>
    /\ \E t \in Threads :
          /\ pc[t] = "dispatch"
          /\ tidx[t] = 1
          /\ tpdu[t].pdu = NtfLong
    /\ calls = <<[l |-> "on_notification", pdu |-> NtfLong, v |-> LongBuf]>>

\* C2: of two requests in flight at the same time, each caller gets the
\* response to its own request: no caller is handed the response that
\* answers a request another caller is still waiting on.
C2_OwnResponseOnly ==
    \A c \in Callers :
        ~(hist[c].res = "response" /\ hist[c].by # c /\ hist[c].live)

C3_OneAttempt ==
    /\ \A t \in Threads : tatt[t] <= 1
    /\ \A t \in Threads : pc[t] \in ConnectPcs => tatt[t] = 1
    /\ autoFailed =>
          /\ \A t \in Threads : ~Live(t)
          /\ pc["ui"] \notin ConnectPcs

C3_ExitStep ==
    \A t \in Threads :
        /\ (pc[t] = "exit" /\ pc'[t] # "exit") =>
              IF running
              THEN pc'[t] = "c50" /\ tatt'[t] = tatt[t] + 1
              ELSE pc'[t] = "done" /\ tatt'[t] = tatt[t]
        /\ tatt'[t] # tatt[t] => pc[t] = "exit"

C3_FailStep ==
    /\ (autoFailed' /\ ~autoFailed) =>
          \E t \in Threads :
             /\ pc[t] \in ConnectPcs
             /\ pc'[t] = "done"
             /\ nsock' = nsock /\ nthr' = nthr /\ nthread' = nthread
    /\ (autoFailed /\ autoFailed') => (nsock' = nsock /\ nthr' = nthr)

\* C3: when the receive loop has ended and finds running true it makes
\* exactly one connect() attempt, and none when running is false.  A thread
\* never makes a second attempt.  When the attempt fails the thread ends
\* normally: no receive loop is active or being started afterwards, and no
\* socket or thread is created until the caller itself calls connect().
C3_SingleReconnect ==
    /\ []C3_OneAttempt
    /\ [][C3_ExitStep /\ C3_FailStep]_vars

\* a reconnect attempt has failed: the thread that made it has ended, the
\* socket it created is not connected, running is still true
C3_Witness ==
    /\ autoFailed
    /\ running
    /\ sock = 2
    /\ sockSt[2] = "new"
    /\ \E t \in Threads : tatt[t] = 1 /\ pc[t] = "done"

C4_TimeoutOutcome ==
    \A c \in Callers :
        hist[c].res \in TimedOut =>
            IF hist[c].op = "read"
            THEN /\ hist[c].res = "timeout_raised"
                 /\ c \in Senders => pc[c] = "died"
            ELSE /\ hist[c].op \in {"write", "cccd"}
                 /\ hist[c].res = "timeout_logged"
                 /\ c \in Senders => pc[c] = "done"
                 /\ c = "ui" => pc[c] \in {"register", "read_send", "read_wait"}

C4_TimeoutStep ==
    \A c \in Callers :
        (hist'[c] # hist[c] /\ hist'[c].res \in TimedOut) =>
            /\ responses = <<>>
            /\ creq[c] # 0
            /\ UNCHANGED <<attVars, envVars>>

\* C4: a request whose response does not come within the timeout ends for
\* read() with the exception reaching the caller, and for write() and
\* write_cccd() with a normal return, the caller carrying on.  The timeout
\* changes nothing in the session: socket, running flag, receive thread,
\* queue and listeners are as they were.
C4_TimeoutHandling ==
    /\ []C4_TimeoutOutcome
    /\ [][C4_TimeoutStep]_vars

\* one sender's read has timed out and ended its thread; the other sender
\* went through, its write has timed out and it has returned normally
C4_Witness ==
    /\ hist["s1"].op = "read" /\ hist["s1"].res = "timeout_raised" /\ pc["s1"] = "died"
    /\ hist["s2"].op = "write" /\ hist["s2"].res = "timeout_logged" /\ pc["s2"] = "done"
    /\ running /\ sockSt[sock] = "open" /\ \E t \in Threads : InLoop(t)

\* C5: once disconnect() has been called and until the caller calls
\* connect() again, running stays false: no connect() run by the receive
\* thread brings the session up again.
C5_DisconnectIsFinal ==
    discCalled => ~running

\* C6: a disconnect() on a session that was never connected, or directly
\* after a disconnect() that has returned, raises no error and leaves
\* running false and the socket, if there is one, closed.
C6_RepeatDisconnectHarmless ==
    [][(/\ pc["ui"] = "d61"
        /\ pc'["ui"] = "idle"
        /\ (uilog = <<>> \/ uilog[Len(uilog)] \in DisconnectEnds))
       => (/\ uilog'[Len(uilog')] = "disconnect_ok"
           /\ running' = FALSE
           /\ (sock' = 0 \/ sockSt'[sock'] = "closed"))]_vars

\* ------------------------------------------------------------------------
\* Claims on send_settings
\* ------------------------------------------------------------------------
\* C11: for every amplification and balance the sliders can give, the
\* per-ear values are left = right = amp when balance is 0; left = amp +
\* (0.5 - balance) * amp * 2 and right = amp when balance is negative;
\* left = amp and right = amp + (balance - 0.5) * amp * 2 when balance is
\* positive.  Nothing is clamped: amp 0.4 with balance -1.0 gives left 1.6
\* and right 0.4.  Values are in 1/10000, slider positions in 1/100.
C11_BalanceTransform ==
    perEar # NoPerEar =>
        LET a == sliders.amp
            b == sliders.balance
        IN /\ b = 0 => (perEar.left = 100 * a /\ perEar.right = 100 * a)
           /\ b < 0 => (/\ perEar.left - 100 * a = 2 * a * (50 - b)
                        /\ perEar.right = 100 * a)
           /\ b > 0 => (/\ perEar.left = 100 * a
                        /\ perEar.right - 100 * a = 2 * a * (b - 50))
           /\ (a = 40 /\ b = 0 - 100) => (perEar.left = 16000 /\ perEar.right = 4000)

\* the transform has run on amp 0.4, balance -1.0 and the left value is
\* above 1.0
C11_Witness ==
    /\ sliders # NoSliders
    /\ perEar # NoPerEar
    /\ sliders.amp = 40 /\ sliders.balance = 0 - 100
    /\ perEar.left = 16000 /\ perEar.left > 10000

\* ------------------------------------------------------------------------
\* Claims on send_hearing_aid_settings and the aggregate fields
\* ------------------------------------------------------------------------
\* other values of <<net_amplification, balance>>
AggregateVariants == {<<Fin(0 - 8), Fin(0)>>, <<NaNNum, Fin(8)>>, <<Fin(8), Fin(0 - 8)>>}

\* the record st with other values in its two aggregate fields
WithAggregates(st, na, nb) == [st EXCEPT !.net_amplification = na, !.balance = nb]

\* C12: for the same prior buffer, a record that agrees with the submitted
\* one on every per-ear field and on own_voice_amplification, and differs
\* in net_amplification or balance, gives the same outcome and the same
\* bytes in the write buffer.
C12_AggregatesIgnored ==
    CodecSent =>
        \A ag \in AggregateVariants :
            SendOutcome(data, WithAggregates(submitted, ag[1], ag[2])) = out

\* a buffer has been written for a record whose ears differ and whose
\* aggregate fields differ from the variants compared with it
C12_Witness ==
    /\ CodecSent
    /\ out.wrote
    /\ submitted.left_amplification # submitted.right_amplification
    /\ <<submitted.net_amplification, submitted.balance>> \notin AggregateVariants

\* ------------------------------------------------------------------------
\* Claims on the listeners
\* ------------------------------------------------------------------------
\* the listener calls made so far for the PDU thread t is dispatching
DoneFor(t) == SubSeq(calls, Len(calls) - tidx[t] + 1, Len(calls))

\* when the dispatch of a PDU ends, every callback registered for its
\* handle has been called exactly once for it, in registration order
C13_DispatchEndStep ==
    \A t \in Threads :
        (pc[t] = "dispatch" /\ pc'[t] # "dispatch") =>
            LET lst  == listeners[WireHandle(tpdu[t].pdu)]
                done == DoneFor(t)
                At(l) == {k \in 1..Len(done) : done[k].l = l}
            IN /\ \A j \in 1..Len(lst) : Cardinality(At(lst[j])) = 1
               /\ \A i, j \in 1..Len(lst) :
                     i < j => \A a \in At(lst[i]), b \in At(lst[j]) : a < b

\* a call goes to a callback registered for the handle of the PDU, with the
\* PDU's value
C13_CallStep ==
    (calls' # calls) =>
        LET e == calls'[Len(calls')]
        IN /\ calls' = Append(calls, e)
           /\ Registered(WireHandle(e.pdu), e.l)
           /\ e.v = SubSeq(e.pdu, 4, Len(e.pdu))
           /\ \E t \in Threads : pc[t] = "dispatch" /\ tpdu[t].pdu = e.pdu

\* C13: for each notification received, every callback registered for its
\* handle is called exactly once, in registration order, with the PDU's
\* value, before the next PDU is taken; callbacks of other handles and
\* callbacks that were removed are not called.
C13_DispatchOrder ==
    [][C13_DispatchEndStep /\ C13_CallStep]_vars

\* ------------------------------------------------------------------------
\* Claims on the requests
\* ------------------------------------------------------------------------
HandleNames == {"TRANSPARENCY", "LOUD_SOUND_REDUCTION", "HEARING_AID"}
\* the handle values as the protocol fixes them
FixedHandle(name) ==
    IF name = "TRANSPARENCY" THEN 24 ELSE IF name = "LOUD_SOUND_REDUCTION" THEN 27 ELSE 42
FrameValues == {<<>>, <<1, 0>>, ShortBuf}
SendPcs == {"cccd_send", "read_send", "write_send"}
WaitPcs == {"cccd_wait", "read_wait", "write_wait"}

C14_Frames ==
    \A name \in HandleNames :
        /\ ReadPdu(ATT_HANDLES(name)) = <<10, FixedHandle(name), 0>>
        /\ \A v \in FrameValues :
              /\ WritePdu(ATT_HANDLES(name), v) = <<18, FixedHandle(name), 0>> \o v
              /\ WritePdu(ATT_CCCD_HANDLES(name), v) = <<18, FixedHandle(name) + 1, 0>> \o v

C14_WaitingHasSent ==
    \A c \in Callers : pc[c] \in WaitPcs <=> creq[c] # 0

C14_SendStep ==
    \A c \in Callers :
        (pc[c] \in SendPcs /\ pc'[c] \in WaitPcs) =>
            /\ nreq' = nreq + 1
            /\ \E r \in {devq'[sock][Len(devq'[sock])]} :
                  /\ devq' = [devq EXCEPT ![sock] = Append(@, r)]
                  /\ r.by = c
                  /\ pc[c] = "read_send" => r.pdu = <<10, 42, 0>>
                  /\ pc[c] = "cccd_send" => r.pdu = <<18, 43, 0, 1, 0>>
                  /\ pc[c] = "write_send" =>
                        /\ SubSeq(r.pdu, 1, 3) = <<18, 42, 0>>
                        /\ Len(r.pdu) = 3 + Len(sdata[c])
                        /\ \A i \in {1, 2, 4} : r.pdu[3 + i] = sdata[c][i]
                        /\ r.pdu[3 + 3] = MarkerByte

C14_NoOtherSend ==
    (nreq' # nreq) => \E c \in Callers : pc[c] \in SendPcs /\ pc'[c] \in WaitPcs

\* C14: read(h) sends one PDU [0x0A, lsb, msb] of the handle of h, write(h, v)
\* one PDU [0x12, lsb, msb] + v and write_cccd(h, v) one PDU [0x12, lsb, msb]
\* of the handle plus one, + v, for the handles 0x18, 0x1B and 0x2A.  A call
\* sends its one PDU before it waits, and nothing else sends.
C14_RequestFraming ==
    /\ [](C14_Frames /\ C14_WaitingHasSent)
    /\ [][C14_SendStep /\ C14_NoOtherSend]_vars

\* a sender waits for the response to its write, the accessory holds the
\* write request with the 104-byte value
C14_Witness ==
    /\ pc["s1"] = "write_wait"
    /\ devq[sock] # <<>>
    /\ devq[sock][Len(devq[sock])].by = "s1"
    /\ Len(devq[sock][Len(devq[sock])].pdu) = 3 + MinSettingsLen
    /\ SubSeq(devq[sock][Len(devq[sock])].pdu, 1, 3) = <<18, 42, 0>>

\* ------------------------------------------------------------------------
\* Claims on connect failure, the hand-off and the receive loop
\* ------------------------------------------------------------------------
\* C15: when the socket connect fails in connect(), whether the caller or
\* the reconnect of a receive thread called it, no receive thread is created
\* and the session is not marked running afterwards.
C15_FailedConnectNotRunning ==
    [][\A p \in {"ui"} \cup Threads :
          (pc[p] = "c51" /\ pc'[p] \notin {"c51", "c54"}) =>
              /\ running' = FALSE
              /\ nthr' = nthr
              /\ nthread' = nthread]_vars

\* C16: with one caller that makes its requests one at a time, the queue
\* between the receive loop and the caller never holds more than one
\* response PDU, also after requests that timed out.
C16_SingleSlot ==
    Cardinality({i \in 1..Len(responses) : responses[i].re # 0}) <= 1

\* a HEARING_AID notification whose value decodes
DecodableNtf(pdu) ==
    /\ Len(pdu) >= 3 + MinSettingsLen
    /\ pdu[1] = OPCODE_HANDLE_VALUE_NTF
    /\ WireHandle(pdu) = HANDLE_HEARING_AID

\* update_ui is emitted once by a call of on_notification with a value that
\* decodes and once by an initial read whose payload decodes, and by nothing
\* else; a payload that does not decode ends neither the receive thread's
\* dispatch nor connect_att
C17_EmitStep ==
    LET e == calls'[Len(calls')]
        byCall == /\ calls' # calls
                  /\ e.l = "on_notification"
                  /\ Len(e.v) >= MinSettingsLen
        byRead == /\ pc["ui"] = "read_wait"
                  /\ pc'["ui"] # "read_wait"
                  /\ responses # <<>>
                  /\ Len(Strip(Head(responses).pdu)) >= MinSettingsLen
    IN /\ emitted' = emitted + (IF byCall THEN 1 ELSE 0) + (IF byRead THEN 1 ELSE 0)
       /\ (calls' # calls) => \A t \in Threads : pc[t] = "dispatch" => pc'[t] = "dispatch"
       /\ (pc["ui"] = "read_wait" /\ pc'["ui"] # "read_wait" /\ responses # <<>>)
             => hist'["ui"].res = "response"

\* a decodable HEARING_AID notification the receive loop takes is handed to
\* on_notification
C17_ReceivedStep ==
    \A s \in Socks :
        (Received(s) /\ DecodableNtf(Head(inbox[s]).pdu)) =>
            \E t \in Threads :
                /\ pc'[t] = "dispatch"
                /\ tpdu'[t] = Head(inbox[s])
                /\ Registered(HANDLE_HEARING_AID, "on_notification")

\* C17: update_ui is emitted exactly once for each initial read and each
\* HEARING_AID notification whose payload decodes, and is not emitted, with
\* no error, when the payload is shorter than 104 bytes.
C17_SettingsSubscription ==
    [][C17_EmitStep /\ C17_ReceivedStep]_vars

\* C18: with one caller that makes its requests one at a time, what read()
\* returns is the response to the request that read() sent: never the
\* response to an earlier request of the caller that had timed out.
C18_ReadIsFresh ==
    ~(/\ hist["ui"].op = "read"
      /\ hist["ui"].res = "response"
      /\ hist["ui"].by = "ui"
      /\ ~hist["ui"].live)

\* C19: a receive thread never ends on an exception of its own: whatever
\* PDU it receives, of any length, it goes on or leaves the loop through
\* the reconnect step.
C19_LoopNeverCrashes ==
    \A t \in Threads : pc[t] # "crashed"

\* the callers of the termination scenario
TermCallers == {"ui", "s1"}

\* C20: every read(), write() and write_cccd() call whose send succeeded
\* eventually finishes, by returning or by raising on timeout, whatever
\* happens to the session meanwhile: the receive loop may have stopped and
\* disconnect() may be called while the call is waiting.
C20_RequestsTerminate ==
    \A c \in TermCallers : \A w \in WaitPcs : (pc[c] = w) ~> (pc[c] # w)

\* a call is waiting for its response after disconnect() closed the socket
\* and with no receive thread left in its loop
C20_Witness ==
    /\ pc["s1"] \in WaitPcs
    /\ discCalled
    /\ ~running
    /\ \A s \in Socks : sockSt[s] # "open"
    /\ \A t \in Threads : ~InLoop(t)
====
